---- MODULE Spec2Model ----
(***************************************************************************)
(* Model of kconfig-merge.py: main() validates the --sources arguments,    *)
(* builds a KconfigMerge object and calls import_sources(), which walks    *)
(* the `source "<path>"` references depth first (_parse_kconfig), copying  *)
(* every file under the output root's parent directory.                    *)
(*                                                                         *)
(* A path is a sequence of segments counted from the filesystem root       *)
(* (<<"a","b","x.kconfig">> is /a/b/x.kconfig); a relative path is a       *)
(* sequence of segments that may hold ".." and ".".  A line of a file is   *)
(* a record [lead, kw, arg, nl]: the whitespace the line begins with, the  *)
(* text before the quoted argument, the quoted path and whether the line   *)
(* ends in a newline.                                                      *)
(*                                                                         *)
(* Files are written through Python's buffered text layer: the files of    *)
(* the model are shorter than one buffer, so what write() is given         *)
(* reaches the disk when the handle is closed, at the handle's offset 0.   *)
(***************************************************************************)
EXTENDS Integers, Sequences, FiniteSets, TLC

VARIABLES
    args,          \* args.sources: the --sources arguments of this run
    kroot,         \* args.kconfig / self.kconfig_root
    run,           \* 1: first invocation, 2: re-import of the generated root
    prev_root,     \* kconfig_root of the first invocation (<<>> during run 1)
    files,         \* disk: path -> lines, for every regular file
    dirs,          \* disk: the set of directories
    pc,            \* position of the single thread of control
    i,             \* index of the for loop in main / import_sources
    sources,       \* kconfig_sources of main = sources of import_sources
    parent_dir,    \* self.parent_dir
    common_dir,    \* self.common_dir
    records,       \* self.kconfig_sources
    stack,         \* the active _parse_kconfig calls, innermost last
    root_open,     \* the handle kconfig_root of import_sources is open
    root_buf,      \* what has been written to that handle
    exc,           \* the exception being propagated, NoExc if none
    rewrites,      \* history: every rewritten source line written to a copy
    copies         \* history: every _parse_kconfig call that returned

vars == <<args, kroot, run, prev_root, files, dirs, pc, i, sources, parent_dir,
          common_dir, records, stack, root_open, root_buf, exc, rewrites, copies>>

-----------------------------------------------------------------------------
(* Bounds *)

MaxSources == 3        \* longest --sources list drawn in Init
MaxDepth == 5          \* the interpreter's limit on nested calls

-----------------------------------------------------------------------------
(* Paths: os.path *)

Title == "T"

Cwd == <<"a">>

\* segment names in the order Python compares strings
SegOrder == <<"..", "Kconfig", "Kconfig.out", "a", "b", "bad.kconfig", "c", "d", "loop.kconfig",
              "missing.kconfig", "out", "out2", "p.kconfig", "q.kconfig", "tmp",
              "x.kconfig", "y.kconfig", "z.kconfig">>

Rank(s) == CHOOSE k \in 1..Len(SegOrder) : SegOrder[k] = s

RECURSIVE Norm(_)
\* os.path.normpath of an absolute path, which is how the OS resolves it
Norm(p) ==
    IF p = <<>> THEN <<>>
    ELSE LET head == Norm(SubSeq(p, 1, Len(p) - 1))
             last == p[Len(p)]
         IN  IF last = "." THEN head
             ELSE IF last = ".."
                  THEN (IF head = <<>> THEN <<>> ELSE SubSeq(head, 1, Len(head) - 1))
                  ELSE Append(head, last)

Dirname(p) == IF p = <<>> THEN <<>> ELSE SubSeq(p, 1, Len(p) - 1)

Join(dir, rel) == dir \o rel

IsPrefix(s, t) == Len(s) <= Len(t) /\ SubSeq(t, 1, Len(s)) = s

RECURSIVE PrefixLen(_, _)
\* length of os.path.commonprefix([s, t])
PrefixLen(s, t) ==
    IF s = <<>> \/ t = <<>> \/ s[1] # t[1] THEN 0
    ELSE 1 + PrefixLen(Tail(s), Tail(t))

Relpath(path, start) ==
    LET start_list == Norm(start)
        path_list == Norm(path)
        n == PrefixLen(start_list, path_list)
        rel_list == [k \in 1..(Len(start_list) - n) |-> ".."]
                    \o SubSeq(path_list, n + 1, Len(path_list))
    IN  IF rel_list = <<>> THEN <<".">> ELSE rel_list

RECURSIVE ListLess(_, _)
\* Python's s < t on lists of strings
ListLess(s, t) ==
    IF t = <<>> THEN FALSE
    ELSE IF s = <<>> THEN TRUE
    ELSE IF s[1] # t[1] THEN Rank(s[1]) < Rank(t[1])
    ELSE ListLess(Tail(s), Tail(t))

Commonpath(paths) ==
    LET split_paths == {paths[k] : k \in DOMAIN paths}
        s1 == CHOOSE s \in split_paths : \A t \in split_paths : ~ListLess(t, s)
        s2 == CHOOSE s \in split_paths : \A t \in split_paths : ~ListLess(s, t)
    IN  SubSeq(s1, 1, PrefixLen(s1, s2))

Abspath(a) == IF a.abs THEN a.segs ELSE Norm(Join(Cwd, a.segs))

-----------------------------------------------------------------------------
(* Lines *)

Cfg(name) == [lead |-> "", kw |-> "config", arg |-> <<name>>, nl |-> TRUE]

Src(path) == [lead |-> "", kw |-> "source", arg |-> path, nl |-> TRUE]

\* re.match(r"^source\s*\"([^\"]*)\"", line) and match.group(1)
Match(line) == line.lead = "" /\ line.kw = "source"

Group1(line) == line.arg

\* "source \"%s\"\n" % relpath
SourceLine(relpath) == [lead |-> "", kw |-> "source", arg |-> relpath, nl |-> TRUE]

Headers ==
    << [lead |-> "", kw |-> "# AUTOGENERATED FILE. DO NOT MODIFY", arg |-> <<>>, nl |-> TRUE] >>

Mainmenu ==
    [lead |-> "", kw |-> "mainmenu", arg |-> <<Title, "Configuration">>, nl |-> TRUE]

-----------------------------------------------------------------------------
(* The disk before the first run *)

XPath == <<"a", "b", "x.kconfig">>
YPath == <<"a", "b", "c", "y.kconfig">>
ZPath == <<"a", "d", "z.kconfig">>
KPath == <<"a", "Kconfig">>
LoopPath == <<"a", "loop.kconfig">>
PPath == <<"a", "d", "p.kconfig">>
QPath == <<"a", "d", "q.kconfig">>
BadPath == <<"a", "d", "bad.kconfig">>
MissingPath == <<"tmp", "missing.kconfig">>
DPath == <<"a", "d">>

InitFiles ==
    (XPath :> << Cfg("X"), Src(<<"c", "y.kconfig">>), Src(<<>>),
                 [lead |-> "", kw |-> "config", arg |-> <<"X2">>, nl |-> FALSE] >>)
    @@ (YPath :> << Cfg("Y"), Src(<<"..", "..", "d", "z.kconfig">>) >>)
    @@ (ZPath :> << Cfg("Z"),
                    [lead |-> "  ", kw |-> "source", arg |-> <<"q.kconfig">>, nl |-> TRUE] >>)
    @@ (KPath :> << Src(<<"b", "x.kconfig">>), Cfg("K1"), Cfg("K2"), Cfg("K3"), Cfg("K4") >>)
    @@ (LoopPath :> << Src(<<"loop.kconfig">>) >>)
    @@ (PPath :> << Src(<<"q.kconfig">>) >>)
    @@ (QPath :> << Cfg("Q"), Src(<<"p.kconfig">>) >>)
    @@ (BadPath :> << Cfg("B1"), Src(<<"missing.kconfig">>), Cfg("B2") >>)

Prefixes(p) == {SubSeq(p, 1, n) : n \in 0..Len(p)}

InitDirs == UNION {Prefixes(Dirname(p)) : p \in DOMAIN InitFiles} \cup {<<"tmp">>}

ArgChoices ==
    { [abs |-> TRUE, segs |-> XPath], [abs |-> TRUE, segs |-> ZPath],
      [abs |-> FALSE, segs |-> <<"Kconfig">>], [abs |-> TRUE, segs |-> LoopPath],
      [abs |-> TRUE, segs |-> PPath], [abs |-> TRUE, segs |-> BadPath],
      [abs |-> TRUE, segs |-> MissingPath], [abs |-> TRUE, segs |-> DPath] }

\* --kconfig: an output root apart from the inputs, and one beside them
RootChoices == { <<"out", "Kconfig">>, <<"a", "Kconfig.out">> }

SecondRoot == <<"out2", "Kconfig">>

NoExc == [kind |-> "none", path |-> <<>>]

-----------------------------------------------------------------------------
(* The disk: os.path.exists, os.path.isfile, os.makedirs, open, close *)

Exists(p) == Norm(p) \in DOMAIN files \/ Norm(p) \in dirs

IsFile(p) == Norm(p) \in DOMAIN files

IsDir(p) == Norm(p) \in dirs

\* os.makedirs(d, exist_ok=True): d and every missing ancestor
MakeDirs(ds, d) == ds \cup Prefixes(Norm(d))

\* open(p, 'w'): the file is created, or truncated when it exists
Truncate(fs, p) == [q \in DOMAIN fs \cup {Norm(p)} |-> IF q = Norm(p) THEN <<>> ELSE fs[q]]

\* closing a handle opened with 'w': the buffered lines go to the file from
\* offset 0; what another handle put beyond them stays
Flush(fs, p, buf) ==
    [fs EXCEPT ![Norm(p)] = buf \o SubSeq(@, Len(buf) + 1, Len(@))]

-----------------------------------------------------------------------------
(* KconfigMerge *)

GetSourceRelpath(source_path) == Relpath(source_path, common_dir)

GetParentRelpath(source_path) == Join(parent_dir, GetSourceRelpath(source_path))

Top(stk) == stk[Len(stk)]

Pop(stk) == SubSeq(stk, 1, Len(stk) - 1)

\* a variant of ReturnValue: the destination path is returned
ReturnParentRelpath(frame) == frame.dest

\* return kconfig_source_relpath
ReturnValue(frame) == frame.relpath

\* _parse_kconfig(kconfig_source) up to the with statement, called with the
\* active calls stk: the call either enters its loop or raises
ParseCall(kconfig_source, stk) ==
    LET kconfig_source_relpath == GetSourceRelpath(kconfig_source)
        kconfig_parent_relpath == GetParentRelpath(kconfig_source)
    IN  IF Len(stk) >= MaxDepth
        THEN /\ exc' = [kind |-> "ResourceLimit", path |-> kconfig_source]
             /\ pc' = "unwind"
             /\ stack' = stk
             /\ UNCHANGED <<files, dirs, records>>
        ELSE /\ dirs' = MakeDirs(dirs, Dirname(kconfig_parent_relpath))
             /\ records' = Append(records, {kconfig_source, kconfig_parent_relpath})
             /\ IF ~IsFile(kconfig_source)
                THEN /\ exc' = [kind |-> IF IsDir(kconfig_source) THEN "IsADirectory"
                                         ELSE "FileNotFound",
                                path |-> kconfig_source]
                     /\ pc' = "unwind"
                     /\ stack' = stk
                     /\ UNCHANGED files
                ELSE IF IsDir(kconfig_parent_relpath)
                THEN /\ exc' = [kind |-> "IsADirectory", path |-> kconfig_parent_relpath]
                     /\ pc' = "unwind"
                     /\ stack' = stk
                     /\ UNCHANGED files
                ELSE /\ files' = Truncate(files, kconfig_parent_relpath)
                     /\ stack' = Append(stk, [src |-> kconfig_source,
                                              relpath |-> kconfig_source_relpath,
                                              dest |-> kconfig_parent_relpath,
                                              pos |-> 0,
                                              buf |-> <<>>,
                                              orig |-> files[Norm(kconfig_source)]])
                     /\ pc' = "parse"
                     /\ UNCHANGED exc

Init ==
    /\ args \in UNION {[1..n -> ArgChoices] : n \in 1..MaxSources}
    /\ kroot \in RootChoices
    /\ run = 1
    /\ prev_root = <<>>
    /\ files = InitFiles
    /\ dirs = InitDirs
    /\ pc = "validate"
    /\ i = 1
    /\ sources = <<>>
    /\ parent_dir = <<>>
    /\ common_dir = <<>>
    /\ records = <<>>
    /\ stack = <<>>
    /\ root_open = FALSE
    /\ root_buf = <<>>
    /\ exc = NoExc
    /\ rewrites = {}
    /\ copies = {}

\* a variant of CheckSource: os.path.isfile is not consulted
CheckSourceExistsOnly ==
    /\ pc = "validate"
    /\ i <= Len(args)
    /\ LET source == Abspath(args[i])
       IN  IF ~Exists(source)
           THEN /\ exc' = [kind |-> "CouldNotFindFile", path |-> source]
                /\ pc' = "failed"
                /\ UNCHANGED <<i, sources>>
           ELSE /\ sources' = Append(sources, source)
                /\ i' = i + 1
                /\ pc' = IF i = Len(args) THEN "construct" ELSE "validate"
                /\ UNCHANGED exc
    /\ UNCHANGED <<args, kroot, run, prev_root, files, dirs, parent_dir, common_dir,
                   records, stack, root_open, root_buf, rewrites, copies>>

\* main, one turn of the loop over args.sources
CheckSource ==
    /\ pc = "validate"
    /\ i <= Len(args)
    /\ LET source == Abspath(args[i])
       IN  IF ~Exists(source)
           THEN /\ exc' = [kind |-> "CouldNotFindFile", path |-> source]
                /\ pc' = "failed"
                /\ UNCHANGED <<i, sources>>
           ELSE IF ~IsFile(source)
           THEN /\ exc' = [kind |-> "NotAFile", path |-> source]
                /\ pc' = "failed"
                /\ UNCHANGED <<i, sources>>
           ELSE /\ sources' = Append(sources, source)
                /\ i' = i + 1
                /\ pc' = IF i = Len(args) THEN "construct" ELSE "validate"
                /\ UNCHANGED exc
    /\ UNCHANGED <<args, kroot, run, prev_root, files, dirs, parent_dir, common_dir,
                   records, stack, root_open, root_buf, rewrites, copies>>

\* KconfigMerge.__init__
Construct ==
    /\ pc = "construct"
    /\ parent_dir' = Dirname(kroot)
    /\ common_dir' = <<>>
    /\ records' = <<>>
    /\ dirs' = MakeDirs(dirs, Dirname(kroot))
    /\ pc' = "import"
    /\ UNCHANGED <<args, kroot, run, prev_root, files, i, sources, stack, root_open,
                   root_buf, exc, rewrites, copies>>

\* import_sources up to its loop
ImportBegin ==
    /\ pc = "import"
    /\ common_dir' = Commonpath(sources)
    /\ files' = Truncate(files, kroot)
    /\ root_open' = TRUE
    /\ root_buf' = Headers \o <<Mainmenu>>
    /\ i' = 1
    /\ pc' = "loop"
    /\ UNCHANGED <<args, kroot, run, prev_root, dirs, sources, parent_dir, records,
                   stack, exc, rewrites, copies>>

\* import_sources, the call of _parse_kconfig for the next source
ImportNext ==
    /\ pc = "loop"
    /\ i <= Len(sources)
    /\ ParseCall(sources[i], stack)
    /\ UNCHANGED <<args, kroot, run, prev_root, i, sources, parent_dir, common_dir,
                   root_open, root_buf, rewrites, copies>>

\* _parse_kconfig, one line of the source file
ParseLine ==
    /\ pc = "parse"
    /\ LET top == Top(stack)
           content == files[Norm(top.src)]
       IN  /\ top.pos < Len(content)
           /\ LET f_source_line == content[top.pos + 1]
                  read == [stack EXCEPT ![Len(stack)].pos = @ + 1]
              IN  IF Match(f_source_line) /\ Group1(f_source_line) # <<>>
                  THEN ParseCall(Join(Dirname(top.src), Group1(f_source_line)), read)
                  ELSE /\ stack' = [read EXCEPT ![Len(stack)].buf = Append(@, f_source_line)]
                       /\ UNCHANGED <<files, dirs, records, exc, pc>>
    /\ UNCHANGED <<args, kroot, run, prev_root, i, sources, parent_dir, common_dir,
                   root_open, root_buf, rewrites, copies>>

\* _parse_kconfig at the end of the source file: both files are closed, the
\* relative path is returned and the caller writes its source line
ParseReturn ==
    /\ pc = "parse"
    /\ LET top == Top(stack)
           rest == Pop(stack)
           line == SourceLine(ReturnValue(top))
       IN  /\ top.pos >= Len(files[Norm(top.src)])
           /\ files' = Flush(files, top.dest, top.buf)
           /\ copies' = copies \cup {[src |-> top.src, dest |-> top.dest, orig |-> top.orig,
                                      out |-> files'[Norm(top.dest)]]}
           /\ IF rest # <<>>
              THEN /\ stack' = [rest EXCEPT ![Len(rest)].buf = Append(@, line)]
                   /\ rewrites' = rewrites \cup
                                    {[copy |-> Top(rest).dest, path |-> line.arg,
                                      ref |-> top.src, refdest |-> top.dest]}
                   /\ UNCHANGED <<root_buf, i, pc>>
              ELSE /\ stack' = rest
                   /\ root_buf' = Append(root_buf, line)
                   /\ i' = i + 1
                   /\ pc' = "loop"
                   /\ UNCHANGED rewrites
    /\ UNCHANGED <<args, kroot, run, prev_root, dirs, sources, parent_dir, common_dir,
                   records, root_open, exc>>

\* import_sources after its loop: the root file is closed
ImportEnd ==
    /\ pc = "loop"
    /\ i > Len(sources)
    /\ files' = Flush(files, kroot, root_buf)
    /\ root_open' = FALSE
    /\ pc' = "summary"
    /\ UNCHANGED <<args, kroot, run, prev_root, dirs, i, sources, parent_dir, common_dir,
                   records, stack, root_buf, exc, rewrites, copies>>

\* summary, and main returns
Summary ==
    /\ pc = "summary"
    /\ pc' = "done"
    /\ UNCHANGED <<args, kroot, run, prev_root, files, dirs, i, sources, parent_dir,
                   common_dir, records, stack, root_open, root_buf, exc, rewrites, copies>>

\* a variant of Unwind: the caller catches the exception, skips the
\* reference and goes on
UnwindSkip ==
    /\ pc = "unwind"
    /\ IF stack # <<>>
       THEN /\ pc' = "parse"
            /\ UNCHANGED i
       ELSE /\ pc' = "loop"
            /\ i' = i + 1
    /\ UNCHANGED <<args, kroot, run, prev_root, files, dirs, sources, parent_dir,
                   common_dir, records, stack, root_open, root_buf, exc, rewrites, copies>>

\* an exception leaves one with statement: of the innermost active
\* _parse_kconfig, or else of import_sources, and then main
Unwind ==
    /\ pc = "unwind"
    /\ IF stack # <<>>
       THEN /\ files' = Flush(files, Top(stack).dest, Top(stack).buf)
            /\ stack' = Pop(stack)
            /\ UNCHANGED <<root_open, pc>>
       ELSE /\ files' = Flush(files, kroot, root_buf)
            /\ root_open' = FALSE
            /\ pc' = "failed"
            /\ UNCHANGED stack
    /\ UNCHANGED <<args, kroot, run, prev_root, dirs, i, sources, parent_dir, common_dir,
                   records, root_buf, exc, rewrites, copies>>

\* the tool is run again: --sources is the root file just generated,
\* --kconfig a fresh output root
Reimport ==
    /\ pc = "done"
    /\ run = 1
    /\ run' = 2
    /\ prev_root' = kroot
    /\ args' = << [abs |-> TRUE, segs |-> kroot] >>
    /\ kroot' = SecondRoot
    /\ pc' = "validate"
    /\ i' = 1
    /\ sources' = <<>>
    /\ parent_dir' = <<>>
    /\ common_dir' = <<>>
    /\ records' = <<>>
    /\ root_buf' = <<>>
    /\ rewrites' = {}
    /\ copies' = {}
    /\ UNCHANGED <<files, dirs, stack, root_open, exc>>

Next ==
    \/ CheckSource
    \/ Construct
    \/ ImportBegin
    \/ ImportNext
    \/ ParseLine
    \/ ParseReturn
    \/ ImportEnd
    \/ Summary
    \/ Unwind
    \/ Reimport

Spec == Init /\ [][Next]_vars

-----------------------------------------------------------------------------
(* Vocabulary of the properties *)

Terminated == pc \in {"done", "failed"}

\* every --sources argument of the first run names a regular file
ValidInput == run = 1 /\ \A k \in DOMAIN args : Abspath(args[k]) \in DOMAIN InitFiles

\* the files a file of the initial disk references
Refs(p) ==
    {Norm(Join(Dirname(p), Group1(InitFiles[p][k]))) :
        k \in {n \in DOMAIN InitFiles[p] :
                  Match(InitFiles[p][n]) /\ Group1(InitFiles[p][n]) # <<>>}}
    \cap DOMAIN InitFiles

RECURSIVE Reach(_)
Reach(S) ==
    LET more == S \cup UNION {Refs(p) : p \in S}
    IN  IF more = S THEN S ELSE Reach(more)

\* the top-level inputs and everything they reference, directly or not
InputFiles == Reach({Abspath(args[k]) : k \in DOMAIN args} \cap DOMAIN InitFiles)

CycleReachable == \E p \in InputFiles : p \in Reach(Refs(p))

\* the exception of a file that _parse_kconfig could not open
Raised == exc.kind \in {"FileNotFound", "IsADirectory"}

RootSourceLines == SelectSeq(files[Norm(kroot)], Match)

\* the relative reference graph of the tree around a root file
Graph(root) ==
    {<<Relpath(p, Dirname(root)), SelectSeq(files[p], Match)>> :
        p \in {q \in DOMAIN files : IsPrefix(Dirname(root), q) /\ q # Norm(root)}}

-----------------------------------------------------------------------------
(* Properties *)

\* C1: for every valid input (also a single path, also repeated paths) Import
\* completes and the root file holds exactly one source line per top-level
\* input, in input order.
C1_OneSourceLinePerInput ==
    (ValidInput /\ Terminated) =>
        /\ pc = "done"
        /\ Len(RootSourceLines) = Len(args)
        /\ \A k \in DOMAIN args :
              RootSourceLines[k] = SourceLine(Relpath(Abspath(args[k]), common_dir))

\* C2 as claimed: the path of every rewritten source line, resolved from the
\* directory of the copy that holds it, is the copy of the referenced file.
C2_RelativeToCopy ==
    \A r \in rewrites : Norm(Join(Dirname(r.copy), r.path)) = Norm(r.refdest)

\* C2 as amended: the path of every rewritten source line is the referenced
\* file's path relative to common_dir; resolved from the output root's parent
\* directory it is the path the referenced file was copied to, at any depth.
C2_RelativeToOutputParent ==
    \A r \in rewrites :
        /\ r.path = Relpath(r.ref, common_dir)
        /\ Norm(Join(parent_dir, r.path)) = Norm(r.refdest)
        /\ Norm(Join(parent_dir, r.path)) \in DOMAIN files
        /\ \E c \in copies : c.src = r.ref /\ Norm(c.dest) = Norm(Join(parent_dir, r.path))

\* a rewritten source line in a copy that is not directly in the output
\* root's parent directory
C2_Witness ==
    \E r \in rewrites : Len(Relpath(r.copy, parent_dir)) > 1 /\ pc = "done"

\* C3: common_dir is a directory, the deepest one that is an ancestor of
\* every top-level input, so that no input's path relative to it is ".".
C3_CommonDirIsDeepestAncestor ==
    pc \in {"loop", "parse", "unwind", "summary", "done"} =>
        /\ IsDir(common_dir)
        /\ \A k \in DOMAIN sources : IsPrefix(common_dir, Dirname(sources[k]))
        /\ \A d \in dirs :
              (\A k \in DOMAIN sources : IsPrefix(d, Dirname(sources[k])))
                  => Len(d) <= Len(common_dir)
        /\ \A k \in DOMAIN sources : Relpath(sources[k], common_dir) # <<".">>

\* C4: a call of Transform that returns has written a destination file with
\* as many lines as the source file held when the call began, in the same
\* order: a rewritten source line for each well-formed reference, every other
\* line (source "" among them) unchanged.
C4_LinesPreserved ==
    \A c \in copies :
        /\ Len(c.out) = Len(c.orig)
        /\ \A k \in DOMAIN c.orig :
              IF Match(c.orig[k]) /\ Group1(c.orig[k]) # <<>>
              THEN c.out[k] = SourceLine(Relpath(Join(Dirname(c.src), Group1(c.orig[k])),
                                                 common_dir))
              ELSE c.out[k] = c.orig[k]

\* C5: importing the generated root file into a fresh output root succeeds
\* and yields a tree with the relative reference graph of the first tree.
C5_RoundTrip ==
    (run = 2 /\ Terminated) => (pc = "done" /\ Graph(kroot) = Graph(prev_root))

\* C6: when some --sources path does not exist or is not a regular file, the
\* run never gets past the validation in main: it fails naming the first such
\* path, with no directory created, no file opened or written, nothing copied.
C6_BadPathFailsBeforeOutput ==
    (run = 1 /\ ~ValidInput) =>
        /\ pc \in {"validate", "failed"}
        /\ files = InitFiles
        /\ dirs = InitDirs
        /\ ~root_open
        /\ stack = <<>>
        /\ records = <<>>
        /\ pc = "failed" =>
              /\ exc.kind \in {"CouldNotFindFile", "NotAFile"}
              /\ exc.path \notin DOMAIN InitFiles
              /\ exc.path = Abspath(args[i])
              /\ \A k \in 1..(i - 1) : Abspath(args[k]) \in DOMAIN InitFiles

\* the run failed on a bad path that is not the first of the list
C6_Witness ==
    /\ run = 1
    /\ pc = "failed"
    /\ exc.kind = "CouldNotFindFile"
    /\ Len(sources) >= 1

\* C7, every step after the failure: nothing is written to a handle, no line
\* is read, no call is made, no further input is taken, and what is on disk
\* stays (a file changes only by the close of its own handle).
C7_Step ==
    Raised =>
        /\ exc' = exc
        /\ root_buf' = root_buf
        /\ i' = i
        /\ records' = records
        /\ Len(stack') <= Len(stack)
        /\ \A k \in DOMAIN stack' : stack'[k] = stack[k]
        /\ dirs \subseteq dirs'
        /\ DOMAIN files \subseteq DOMAIN files'
        /\ \A p \in DOMAIN files :
              \/ files'[p] = files[p]
              \/ stack # <<>> /\ p = Norm(Top(stack).dest) /\ files'[p] = Top(stack).buf
              \/ /\ stack = <<>> /\ p = Norm(kroot)
                 /\ SubSeq(files'[p], 1, Len(root_buf)) = root_buf

\* C7: once a referenced file could not be opened the run only unwinds: it
\* never completes, each step is as C7_Step says, and when it has failed
\* every handle is closed.
C7_FailureAborts ==
    /\ [](Raised => /\ pc \in {"unwind", "failed"}
                    /\ pc = "failed" => (stack = <<>> /\ ~root_open))
    /\ [][C7_Step]_vars

\* the run failed on a reference nested in a copied file, with copies and
\* directories already on disk
C7_Witness ==
    /\ pc = "failed"
    /\ exc.kind = "FileNotFound"
    /\ Len(records) >= 2
    /\ \E p \in DOMAIN files : IsPrefix(parent_dir, p) /\ p # Norm(kroot) /\ files[p] # <<>>

\* C8: when the references reachable from the inputs hold a cycle, Import
\* never completes normally.
C8_CycleNeverCompletes ==
    (run = 1 /\ CycleReachable) => pc # "done"

\* C9: no destination that Transform opens for writing is the path of an
\* input file, top-level or referenced, so no input file is ever modified.
C9_InputsReadOnly ==
    run = 1 =>
        \A p \in InputFiles :
            /\ \A k \in DOMAIN stack : Norm(stack[k].dest) # p
            /\ files[p] = InitFiles[p]

\* C10: while the root file is open no Transform call has it as destination,
\* and after a successful Import it holds the banner, the mainmenu line and
\* the top-level source lines, nothing else.
C10_RootNotADestination ==
    /\ root_open => \A k \in DOMAIN stack : Norm(stack[k].dest) # Norm(kroot)
    /\ pc = "done" =>
          files[Norm(kroot)] =
              Headers \o <<Mainmenu>>
              \o [k \in DOMAIN sources |-> SourceLine(Relpath(sources[k], common_dir))]

====
